---- MODULE Spec2Model ----
(***************************************************************************)
(* A model of the ddns-updater: the DDNS service adapters                  *)
(* (lanmanagement/ddns_service_adapters.py) and the two DDNSUpdater        *)
(* variants (lanmanagement/ddns_updater.py and src/ddns_updater.py).       *)
(*                                                                         *)
(* A Python str is a sequence of symbols; a symbol is a one-character      *)
(* string, or a longer literal of the source kept as one piece.           *)
(***************************************************************************)
EXTENDS Integers, Sequences, FiniteSets, TLC

----------------------------------------------------------------------------
(* Bounds of the model *)

\* IP addresses are the symbols "1" .. ToString(NumIPs)
NumIPs == 2
\* cycles that are counted in one run
MaxCycles == 2
\* subclass definitions after the import of the adapters module
MaxClasses == 2
\* times the secrets file is rewritten while the process runs
MaxWrites == 1
\* the length of the domain strings that are made of every character
MaxDomainLen == 7
\* the labels ahead of the TLD in the long domain strings
MaxLabels == 3
\* sections of the configuration file
MaxSections == 2

----------------------------------------------------------------------------
(* Python str operations *)

Whitespace == {" ", "\n", "\t"}

UpperCase == <<"A","B","C","D","E","F","G","H","I","J","K","L","M",
               "N","O","P","Q","R","S","T","U","V","W","X","Y","Z">>

LowerCase == <<"a","b","c","d","e","f","g","h","i","j","k","l","m",
               "n","o","p","q","r","s","t","u","v","w","x","y","z">>

\* str.lower() of one character
lower_char(c) ==
    IF \E i \in 1..Len(UpperCase) : UpperCase[i] = c
    THEN LowerCase[CHOOSE i \in 1..Len(UpperCase) : UpperCase[i] = c]
    ELSE c

\* str.lower()
lower(s) == [i \in 1..Len(s) |-> lower_char(s[i])]

RECURSIVE rstrip(_)
\* str.rstrip(): drop the trailing whitespace
rstrip(s) ==
    IF s = <<>> THEN s
    ELSE IF s[Len(s)] \in Whitespace THEN rstrip(SubSeq(s, 1, Len(s) - 1))
    ELSE s

RECURSIVE lstrip(_)
\* str.lstrip(): drop the leading whitespace
lstrip(s) ==
    IF s = <<>> THEN s
    ELSE IF s[1] \in Whitespace THEN lstrip(Tail(s))
    ELSE s

\* str.strip()
strip(s) == lstrip(rstrip(s))

\* the whole output, every line of it
partition_whole(s) == s

\* str.partition('\n')[0]: the part before the first newline
partition_head(s) ==
    IF \E i \in 1..Len(s) : s[i] = "\n"
    THEN SubSeq(s, 1, (CHOOSE i \in 1..Len(s) :
                          /\ s[i] = "\n"
                          /\ \A j \in 1..(i - 1) : s[j] # "\n") - 1)
    ELSE s

\* fd.readline(): the first line, its newline included
readline(s) ==
    IF \E i \in 1..Len(s) : s[i] = "\n"
    THEN SubSeq(s, 1, CHOOSE i \in 1..Len(s) :
                          /\ s[i] = "\n"
                          /\ \A j \in 1..(i - 1) : s[j] # "\n")
    ELSE s

\* sub in s, for str
Contains(s, sub) ==
    \E i \in 0..(Len(s) - Len(sub)) : SubSeq(s, i + 1, i + Len(sub)) = sub

\* s.endswith(sub)
EndsWith(s, sub) ==
    /\ Len(sub) <= Len(s)
    /\ SubSeq(s, Len(s) - Len(sub) + 1, Len(s)) = sub

----------------------------------------------------------------------------
(* Outcomes of a call: a returned value or a raised exception *)

Returned(v) == [raised |-> "none", value |-> v, msg |-> <<>>]

Raised(type, msg) == [raised |-> type, value |-> <<>>, msg |-> msg]

\* str(e) of an exception: a KeyError shows the repr of its message
str_exc(e) ==
    IF e.raised = "KeyError" THEN <<"'">> \o e.msg \o <<"'">> ELSE e.msg

----------------------------------------------------------------------------
(* Names and values of the program *)

\* the class name of the one adapter subclass of the repository
NameCheap == <<"N","a","m","e","C","h","e","a","p">>

\* the service name that NameCheap.ddns_update_url() uses
namecheap == <<"n","a","m","e","c","h","e","a","p">>

\* further section names of a configuration file
dyn == <<"d","y","n">>

noimplementation == <<"n","o","i","m","p","l">>

\* a service name that no configuration of the model has as a section
nonexistent_service == <<"n","o","n","e">>

SectionNames == {namecheap, dyn, noimplementation}

ServiceNames == SectionNames \cup {nonexistent_service, NameCheap}

\* class names of adapter subclasses that may be defined besides NameCheap
ExtraClasses == {<<"D","y","n">>, <<"D","Y","N">>, <<"N","a","m","e","c","h","e","a","p">>}

\* the path the configuration was read from
CONFIG_FILE == <<"/etc/ddns.ini">>

\* the value of the secrets_file option, and the file it expands to
SECRETS_OPTION == <<"~", "/.ssh/ddns_password">>

HOME == <<"/root">>

OptionNames == {"url_root", "host", "domain", "secrets_file"}

AllOptions ==
    [o \in OptionNames |->
        CASE o = "url_root"     -> <<"https://x/update?">>
          [] o = "host"         -> <<"h">>
          [] o = "domain"       -> <<"d", ".", "c", "o", "m">>
          [] o = "secrets_file" -> SECRETS_OPTION]

\* the options of a section: AllOptions without those of `missing`
Options(missing) == [o \in OptionNames \ missing |-> AllOptions[o]]

\* the sequences of distinct section names, of length 1..n
RECURSIVE SectionLists(_)
SectionLists(n) ==
    IF n = 0 THEN {<<>>}
    ELSE LET shorter == SectionLists(n - 1)
         IN  shorter \cup
             {Append(l, x) : l \in {m \in shorter : Len(m) = n - 1},
                             x \in SectionNames}

DistinctSectionLists(n) ==
    {l \in SectionLists(n) :
        /\ Len(l) >= 1
        /\ \A i, j \in 1..Len(l) : i # j => l[i] # l[j]}

\* a parsed configuration: the sections in file order, and their options
Config(sections, missing) ==
    [sections |-> sections,
     options  |-> [n \in {sections[i] : i \in 1..Len(sections)} |->
                      IF n = namecheap THEN Options(missing) ELSE Options({})]]

----------------------------------------------------------------------------
(* lanmanagement/ddns_service_adapters.py *)

\* configparser: ConfigParser.has_section()
has_section(cfg, name) == \E i \in 1..Len(cfg.sections) : cfg.sections[i] = name

\* configparser: ConfigParser.has_option()
has_option(cfg, section, option) ==
    /\ has_section(cfg, section)
    /\ option \in DOMAIN cfg.options[section]

\* the class name as it is, not lowercased
registry_key_as_is(cls) == cls

\* the key under which __init_subclass__ registers a class
registry_key(cls) == lower(cls)

\* _ADAPTER_REGISTRY[cls.__name__.lower()] = cls
register(reg, cls) ==
    [n \in (DOMAIN reg) \cup {registry_key(cls)} |->
        IF n = registry_key(cls) THEN cls ELSE reg[n]]

\* the reverse registry of the tests: _IMPL_TO_SERVICE_REGISTRY[cls] = name
register_impl(rev, cls) ==
    [c \in (DOMAIN rev) \cup {cls} |->
        IF c = cls THEN registry_key(cls) ELSE rev[c]]

\* the object that cls.__new__(cls) makes, before any attribute is set
new_object(cls) ==
    [cls |-> cls, has_config |-> FALSE, config |-> Config(<<>>, {}),
     has_config_file |-> FALSE]

\* adapter_obj.config = self.config
bind_config(obj, cfg) == [obj EXCEPT !.has_config = TRUE, !.config = cfg]

\* a guard that takes every service for configured
section_known_always(cfg, service_name) == TRUE

\* the guard of get_service_adapter(): is there init info for the service
section_known(cfg, service_name) == has_section(cfg, service_name)

\* DDNSServiceAdapter.get_service_adapter()
get_service_adapter(cfg, reg, service_name) ==
    IF ~section_known(cfg, service_name)
    THEN Raised("NotImplementedError",
                <<"Service '">> \o service_name
                   \o <<"' has no entry in config file ">> \o CONFIG_FILE)
    ELSE IF service_name \in DOMAIN reg
         THEN Returned(bind_config(new_object(reg[service_name]), cfg))
         ELSE Raised("NotImplementedError",
                     <<"Service '">> \o service_name \o <<"' is not implemented">>)

\* a constructor that lets NameCheap() through
NameCheap_init_allowed == Returned(new_object(NameCheap))

\* NameCheap.__init__(): NameCheap() raises, and the new object is dropped
NameCheap_init ==
    Raised("TypeError",
           <<"DDNS adapter classes must be instantiated via ",
             "DDNSServiceAdapter().get_service_adapter(<service-nm>)">>)

\* DDNSServiceAdapter.expand_path(): expandvars, then expanduser
expand_path(path) ==
    IF path # <<>> /\ path[1] = "~" THEN HOME \o Tail(path) ELSE path

\* a read that answers with a content kept from an earlier read
read_file_cached(file, path) == Returned(<<"pw", "\n">>)

\* open(secret_path, 'r') and fd.read(): file is the secrets file on disk
read_file(file, path) ==
    IF file.readable /\ file.path = path
    THEN Returned(file.content)
    ELSE Raised("OSError", <<"No such file or directory: ">> \o path)

\* a trimming of the end of the content only
secret_of_rstrip(content) == rstrip(content)

\* _retrieve_secret(): fd.read().strip(), the secret that a content stands for
secret_of(content) == strip(content)

\* DDNSServiceAdapter._retrieve_secret()
retrieve_secret(self, service_name, file) ==
    LET adapter_section == lower(service_name)
    IN  IF ~self.has_config
        THEN Raised("AttributeError", <<"object has no attribute 'config'">>)
        ELSE IF ~has_option(self.config, adapter_section, "secrets_file")
        THEN IF self.has_config_file
             THEN Raised("KeyError",
                         <<"No 'secrets_file' entry in section ">> \o adapter_section
                            \o <<" of config file ">> \o CONFIG_FILE)
             ELSE Raised("AttributeError",
                         <<"object has no attribute 'config_file'">>)
        ELSE LET secret_path ==
                     expand_path(self.config.options[adapter_section]["secrets_file"])
                 content == read_file(file, secret_path)
             IN  IF content.raised # "none"
                 THEN Raised("FileNotFoundError",
                             <<"Could not open secrets file '">> \o secret_path \o <<"'">>)
                 ELSE Returned(secret_of(content.value))

\* the update URL with the ip parameter ahead of the password parameter
update_url_ip_first(url_base, host, domain, secret, new_ip) ==
    url_base \o <<"host=">> \o host \o <<"&">>
             \o <<"domain=">> \o domain \o <<"&">>
             \o <<"ip=">> \o new_ip \o <<"&">>
             \o <<"password=">> \o secret

\* NameCheap.ddns_update_url(): the f-strings that make up the URL
update_url(url_base, host, domain, secret, new_ip) ==
    url_base \o <<"host=">> \o host \o <<"&">>
             \o <<"domain=">> \o domain \o <<"&">>
             \o <<"password=">> \o secret \o <<"&">>
             \o <<"ip=">> \o new_ip

\* NameCheap.ddns_update_url()
ddns_update_url(self, new_ip, file) ==
    LET service_name == namecheap
        missing(option) ==
            Raised("KeyError",
                   <<"Config entry for service ">> \o service_name
                      \o <<" has not option '", option, "'">>)
    IN  IF ~self.has_config
        THEN Raised("AttributeError", <<"object has no attribute 'config'">>)
        ELSE IF ~has_option(self.config, service_name, "url_root")
        THEN missing("url_root")
        ELSE IF ~has_option(self.config, service_name, "host")
        THEN missing("host")
        ELSE IF ~has_option(self.config, service_name, "domain")
        THEN missing("domain")
        ELSE LET url_base == self.config.options[service_name]["url_root"]
                 host     == self.config.options[service_name]["host"]
                 domain   == self.config.options[service_name]["domain"]
                 secret   == retrieve_secret(self, service_name, file)
             IN  IF secret.raised # "none" THEN secret
                 ELSE Returned(update_url(url_base, host, domain, secret.value, new_ip))

\* DDNSServiceManager.services_list(): the registered names that are sections
services_list(cfg, reg) == SelectSeq(cfg.sections, LAMBDA n : n \in DOMAIN reg)

\* what is at the path of the configuration file: nothing, a file that
\* configparser cannot parse, or a file with sections; the namecheap section
\* has the options of AllOptions but those of missing, and the given domain
ConfigFile(exists, parsable, sections, missing, domain) ==
    [exists |-> exists, parsable |-> parsable, sections |-> sections,
     missing |-> missing, domain |-> domain]

\* the configuration files that the constructor is tried on
ConfigFiles ==
    {ConfigFile(FALSE, TRUE, <<>>, {}, AllOptions["domain"]),
     ConfigFile(TRUE, FALSE, <<>>, {}, AllOptions["domain"]),
     ConfigFile(TRUE, TRUE, <<>>, {}, AllOptions["domain"])}
        \cup {ConfigFile(TRUE, TRUE, l, {}, AllOptions["domain"]) :
                  l \in DistinctSectionLists(MaxSections)}

\* the configuration that the sections of a file are parsed into
parsed_config(file) ==
    LET cfg == Config(file.sections, file.missing)
    IN  [cfg EXCEPT !.options =
            [n \in DOMAIN cfg.options |->
                IF n = namecheap /\ "domain" \in DOMAIN cfg.options[n]
                THEN [cfg.options[n] EXCEPT !["domain"] = file.domain]
                ELSE cfg.options[n]]]

\* ConfigParser.read(): a file that is not there is skipped, and leaves an
\* empty configuration; a file without section headers raises
config_read(file) ==
    IF ~file.exists THEN Returned(Config(<<>>, {}))
    ELSE IF ~file.parsable
    THEN Raised("MissingSectionHeaderError", <<"File contains no section headers.">>)
    ELSE Returned(parsed_config(file))

\* a test that finds a file at every path
path_exists_always(file) == TRUE

\* os.path.exists(config_file)
path_exists(file) == file.exists

\* the DDNSServiceAdapter object that __init__() leaves: config_file and config
manager_object(cfg) ==
    [cls |-> <<"DDNSServiceAdapter">>, has_config |-> TRUE, config |-> cfg,
     has_config_file |-> TRUE]

\* DDNSServiceAdapter.__init__()
DDNSServiceAdapter_init(file) ==
    LET parsed == config_read(file)
    IN  IF parsed.raised # "none" THEN parsed
        ELSE IF Len(parsed.value.sections) = 0
        THEN IF ~path_exists(file)
             THEN Raised("FileNotFoundError",
                         <<"Config file ">> \o CONFIG_FILE \o <<" does not exist">>)
             ELSE Raised("TypeError",
                         <<"Config file ">> \o CONFIG_FILE
                            \o <<" seems empty; if it is not, syntax problems?">>)
        ELSE Returned(manager_object(parsed.value))

----------------------------------------------------------------------------
(* The processes that the updater runs: curl and dig *)

IPs == {<<ToString(i)>> : i \in 1..NumIPs}

\* what the own-IP service or `dig a ... +short` may print
IpOutputs ==
    {ip \o <<"\n">> : ip \in IPs}
        \cup {<<"1">>, <<>>, <<"1", "\n", "2", "\n">>}

\* what `dig ns ... +short` may print
NsOutputs == {<<"dns1.", "\n", "dns2.", "\n">>, <<>>}

\* the nonzero exit codes of the model
FailCodes == {6}

\* subprocess.run() of a process that ended with exit code 0
Succeeded(stdouts) ==
    {[returncode |-> 0, stdout |-> out, stderr |-> <<>>] : out \in stdouts}

\* subprocess.run() of a process that ended with a nonzero exit code
Failed ==
    {[returncode |-> c, stdout |-> <<>>, stderr |-> <<"stderr">>] : c \in FailCodes}

\* the CompletedProcess of subprocess.run()
Completed(stdouts) == Succeeded(stdouts) \cup Failed

\* stands for the outcome of a process that the cycle cannot get to run
NotRun == [returncode |-> 0, stdout |-> <<>>, stderr |-> <<>>]

\* the outcomes of the processes of one cycle; a process after a failed
\* lookup is never started, so no outcome is drawn for it
Outcomes ==
    {[curlOwn |-> a, digNs |-> NotRun, digA |-> NotRun, curlUpd |-> NotRun] :
        a \in Failed}
    \cup
    {[curlOwn |-> a, digNs |-> b, digA |-> NotRun, curlUpd |-> NotRun] :
        a \in Succeeded(IpOutputs), b \in Failed}
    \cup
    {[curlOwn |-> a, digNs |-> b, digA |-> c, curlUpd |-> NotRun] :
        a \in Succeeded(IpOutputs), b \in Succeeded(NsOutputs), c \in Failed}
    \cup
    [curlOwn : Succeeded(IpOutputs), digNs : Succeeded(NsOutputs),
     digA : Succeeded(IpOutputs), curlUpd : Completed({<<"OK">>})]

\* one call of the cycle: the step that made it, its arguments, its result
Call(step, argv, result) == [step |-> step, argv |-> argv, result |-> result]

Info(text) == [level |-> "info", text |-> text]

Error(text) == [level |-> "error", text |-> text]

----------------------------------------------------------------------------
(* DDNSUpdater: lanmanagement/ddns_updater.py and src/ddns_updater.py *)

WHATS_MY_IP_URL == <<"https://4.laxa.org">>

\* the password file of src/ddns_updater.py
DDNS_PASSWORD_FILE == <<"/root / '.ssh/ddns_password">>

\* the URL root that src/ddns_updater.py has in its code
SRC_URL_ROOT == <<"https://dynamicdns.park-your-domain.com/update?">>

\* a lookup that runs curl a second time when the first run failed
cur_own_ip_retry(self, proc) ==
    LET call == Call("own_ip", <<self.curl_binary, WHATS_MY_IP_URL>>, proc)
    IN  [calls |-> IF proc.returncode # 0 THEN <<call, call>> ELSE <<call>>,
         ret   |-> IF proc.returncode # 0
                   THEN Raised("RuntimeError",
                               <<"DDNS update script failed to cURL public IP: ">>
                                  \o proc.stderr)
                   ELSE Returned(rstrip(proc.stdout))]

\* DDNSUpdater.cur_own_ip()
cur_own_ip(self, proc) ==
    [calls |-> <<Call("own_ip", <<self.curl_binary, WHATS_MY_IP_URL>>, proc)>>,
     ret   |-> IF proc.returncode # 0
               THEN Raised("RuntimeError",
                           <<"DDNS update script failed to cURL public IP: ">>
                              \o proc.stderr)
               ELSE Returned(rstrip(proc.stdout))]

\* DDNSUpdater.get_dns_server()
get_dns_server(self, domain, proc) ==
    [calls |-> <<Call("ns", <<self.dig_binary, <<"ns">>, domain, <<"+short">>>>, proc)>>,
     ret   |-> IF proc.returncode # 0
               THEN Raised("RuntimeError",
                           <<"DDNS update script failed to identify authoritative NS: ">>
                              \o proc.stderr)
               ELSE Returned(partition_head(proc.stdout))]

\* DDNSUpdater.current_registered_ip()
current_registered_ip(self, nsProc, aProc) ==
    LET ns == get_dns_server(self, self.domain, nsProc)
    IN  IF ns.ret.raised # "none" THEN ns
        ELSE LET dns_server == ns.ret.value
                 dig_a_cmd  == <<self.dig_binary, <<"a">>,
                                 self.host \o <<".">> \o self.domain,
                                 <<"@">> \o dns_server, <<"+short">>>>
             IN  [calls |-> ns.calls \o <<Call("a", dig_a_cmd, aProc)>>,
                  ret   |-> IF aProc.returncode # 0
                            THEN Raised("RuntimeError",
                                        <<"DDNS update on ">> \o dns_server
                                           \o <<" for host ">> \o self.host
                                           \o <<" failed; \n",
                                                "could not obtain currently registered IP (A record): \n">>
                                           \o aProc.stderr \o <<".">>)
                            ELSE Returned(rstrip(aProc.stdout))]

\* a comparison that looks for the own IP among the published addresses
nothing_to_report_listed(own_ip, registered_ip) == Contains(registered_ip, own_ip)

\* a comparison that never ends the cycle
nothing_to_report_never(own_ip, registered_ip) == FALSE

\* report_own_ip(): the comparison that ends the cycle when nothing changed
nothing_to_report(own_ip, registered_ip) == own_ip = registered_ip

\* the published IP handed to the adapter in place of the own IP
reported_ip_registered(own_ip, registered_ip) == registered_ip

\* report_own_ip(): the IP that is handed to the adapter
reported_ip(own_ip, registered_ip) == own_ip

\* a debug test that never bypasses the update
bypass_update_never(debug) == FALSE

\* report_own_ip(): the debug test that bypasses the update
bypass_update(debug) == debug

\* a test of the exit code that takes every update for a success
update_failed_never(proc) == FALSE

\* report_own_ip(): the test of the update's exit code
update_failed(proc) == proc.returncode # 0

\* a failure message that leaves the URL out
update_failure_msg_no_url(url, proc) ==
    <<"DDNS update script failed to cUrl new A record ">> \o <<": ">> \o proc.stderr

\* report_own_ip(): the text that is logged when the update call failed
update_failure_msg(url, proc) ==
    <<"DDNS update script failed to cUrl new A record ", "via URL ">>
        \o url \o <<": ">> \o proc.stderr

\* an error text without its lead
reporting_error_msg_bare(e) == str_exc(e)

\* report_own_ip(): the text that the except clause of the try logs
reporting_error_msg(e) == <<"Error while reporting IP: ">> \o str_exc(e)

\* report_own_ip(): the text that the else clause of the try logs
success_msg(own_ip, registered_ip) ==
    <<"Reported updated ">> \o registered_ip \o <<" => ">> \o own_ip

\* the result of a cycle: how it ended, what it logged, what it called
Cycle(ret, log, calls) == [ret |-> ret, log |-> log, calls |-> calls]

\* DDNSUpdater.report_own_ip() of lanmanagement/ddns_updater.py
report_own_ip(self, file, x) ==
    LET own == cur_own_ip(self, x.curlOwn)
    IN  IF own.ret.raised # "none" THEN Cycle(own.ret, <<>>, own.calls)
        ELSE
    LET reg    == current_registered_ip(self, x.digNs, x.digA)
        calls2 == own.calls \o reg.calls
    IN  IF reg.ret.raised # "none" THEN Cycle(reg.ret, <<>>, calls2)
        ELSE
    LET own_ip        == own.ret.value
        registered_ip == reg.ret.value
    IN  IF nothing_to_report(own_ip, registered_ip)
        THEN Cycle(Returned(<<>>), <<>>, calls2)
        ELSE
    LET log1   == <<Info(<<"IP changed from ">> \o registered_ip
                            \o <<" to ">> \o own_ip)>>
        new_ip == reported_ip(own_ip, registered_ip)
        url    == ddns_update_url(self.service_adapter, new_ip, file)
        calls3 == calls2 \o <<Call("adapter", <<new_ip>>, url)>>
    IN  IF url.raised # "none"
        THEN Cycle(Returned(<<>>),
                   log1 \o <<Error(reporting_error_msg(url))>>,
                   calls3)
        ELSE IF bypass_update(self.debug)
        THEN Cycle(Returned(<<>>),
                   log1 \o <<Info(<<"Bypassing DDNS service update because --debug">>)>>,
                   calls3)
        ELSE
    LET calls4 == calls3 \o <<Call("update", <<self.curl_binary, url.value>>, x.curlUpd)>>
    IN  IF update_failed(x.curlUpd)
        THEN Cycle(Returned(<<>>),
                   log1 \o <<Error(update_failure_msg(url.value, x.curlUpd))>>,
                   calls4)
        ELSE Cycle(Returned(<<>>),
                   log1 \o <<Info(success_msg(own_ip, registered_ip))>>,
                   calls4)

\* DDNSUpdater.report_own_ip() of src/ddns_updater.py
report_own_ip_src(self, file, x) ==
    LET own == cur_own_ip(self, x.curlOwn)
    IN  IF own.ret.raised # "none" THEN Cycle(own.ret, <<>>, own.calls)
        ELSE
    LET reg    == current_registered_ip(self, x.digNs, x.digA)
        calls2 == own.calls \o reg.calls
    IN  IF reg.ret.raised # "none" THEN Cycle(reg.ret, <<>>, calls2)
        ELSE
    LET own_ip        == own.ret.value
        registered_ip == reg.ret.value
    IN  IF nothing_to_report(own_ip, registered_ip)
        THEN Cycle(Returned(<<>>), <<>>, calls2)
        ELSE
    LET log1     == <<Info(<<"IP changed from ">> \o registered_ip
                              \o <<" to ">> \o own_ip)>>
        content  == read_file(file, DDNS_PASSWORD_FILE)
    IN  IF content.raised # "none"
        THEN Cycle(Returned(<<>>),
                   log1 \o <<Error(reporting_error_msg(content))>>,
                   calls2)
        ELSE
    LET password == rstrip(readline(content.value))
        url      == SRC_URL_ROOT \o <<"host=">> \o self.host \o <<"&">>
                       \o <<"domain=">> \o self.domain \o <<"&">>
                       \o <<"password=">> \o password \o <<"&">>
                       \o <<"ip=">> \o own_ip
        calls3   == calls2 \o <<Call("update", <<self.curl_binary, url>>, x.curlUpd)>>
    IN  IF update_failed(x.curlUpd)
        THEN Cycle(Returned(<<>>),
                   log1 \o <<Error(update_failure_msg(url, x.curlUpd))>>,
                   calls3)
        \* the else clause logs msg, which no statement of this path has bound
        ELSE Cycle(Raised("UnboundLocalError",
                          <<"local variable 'msg' referenced before assignment">>),
                   log1, calls3)

\* the longest domain name that check_domain_syntax() accepts
MAX_DOMAIN_LEN == 253

\* the longest label that the pattern of check_domain_syntax() matches
MAX_LABEL_LEN == 63

\* a pattern that knows the lower-case letters only
Letters_lower_only == {LowerCase[i] : i \in 1..Len(LowerCase)}

\* the classes a-z and A-Z of the pattern
Letters == {LowerCase[i] : i \in 1..Len(LowerCase)}
               \cup {UpperCase[i] : i \in 1..Len(UpperCase)}

Digits == {"0", "1", "2", "3", "4", "5", "6", "7", "8", "9"}

\* the class [a-zA-Z0-9-] of the pattern
LabelChars == Letters \cup Digits \cup {"-"}

RECURSIVE split_dots(_)
\* the pieces of s between its dots: each \. of the pattern matches one dot,
\* and no class of the pattern has a dot in it
split_dots(s) ==
    IF \E i \in 1..Len(s) : s[i] = "."
    THEN LET i == CHOOSE k \in 1..Len(s) :
                      /\ s[k] = "."
                      /\ \A j \in 1..(k - 1) : s[j] # "."
         IN  <<SubSeq(s, 1, i - 1)>> \o split_dots(SubSeq(s, i + 1, Len(s)))
    ELSE <<s>>

\* [a-zA-Z0-9-]{1,63}
is_label(l) ==
    /\ Len(l) >= 1
    /\ Len(l) <= MAX_LABEL_LEN
    /\ \A i \in 1..Len(l) : l[i] \in LabelChars

\* [a-zA-Z]{2,}
is_tld(l) ==
    /\ Len(l) >= 2
    /\ \A i \in 1..Len(l) : l[i] \in Letters

\* domain_regex.match(): ^(?!-)(?:[a-zA-Z0-9-]{1,63})(?<!-)
\* (?:\.[a-zA-Z0-9-]{1,63})*(?<!-)(?:\.[a-zA-Z]{2,})$, where $ also matches
\* ahead of a newline that ends the string
domain_regex_match(s) ==
    LET body  == IF s # <<>> /\ s[Len(s)] = "\n"
                 THEN SubSeq(s, 1, Len(s) - 1) ELSE s
        parts == split_dots(body)
        n     == Len(parts)
    IN  /\ n >= 2
        /\ is_label(parts[1])
        /\ parts[1][1] # "-"
        /\ parts[1][Len(parts[1])] # "-"
        /\ \A k \in 2..(n - 1) : is_label(parts[k])
        /\ parts[n - 1][Len(parts[n - 1])] # "-"
        /\ is_tld(parts[n])

\* DDNSUpdater.check_domain_syntax(), for a str
check_domain_syntax(domain_string) ==
    IF domain_string = <<>> THEN FALSE
    ELSE IF Len(domain_string) > MAX_DOMAIN_LEN THEN FALSE
    ELSE domain_regex_match(domain_string)

\* an argument of check_domain_syntax(): a str, or a value of another type
StrArg(s) == [is_str |-> TRUE, str |-> s]

NotAStr == [is_str |-> FALSE, str |-> <<>>]

\* DDNSUpdater.check_domain_syntax(), for a value of any type
check_domain_syntax_any(v) ==
    IF ~v.is_str THEN FALSE ELSE check_domain_syntax(v.str)

\* a listing of every configured section, implemented or not
DDNSUpdater_services_list_sections(self, reg) == self.service_adapter.config.sections

\* DDNSUpdater.services_list(): what the adapter's services_list() returns
DDNSUpdater_services_list(self, reg) == services_list(self.service_adapter.config, reg)

----------------------------------------------------------------------------
(* The state *)

VARIABLES
    variant,        \* which DDNSUpdater runs: "lan", "src", or "none"
    updater,        \* the DDNSUpdater object
    config,         \* the parsed configuration of the DDNSServiceAdapter
    secrets,        \* the secrets (password) file on disk
    registry,       \* DDNSServiceAdapter._ADAPTER_REGISTRY
    implToService,  \* the reverse registry, class -> service name
    subclasses,     \* the adapter subclasses defined so far, in order
    instances,      \* the adapter objects in existence
    op,             \* the operation that ran last
    arg,            \* its argument
    ret,            \* how it ended: Returned(value) or Raised(type, msg)
    log,            \* the entries it wrote to the log
    calls,          \* the processes and adapter calls it made, in order
    cycle           \* the number of report_own_ip() cycles run

vars == <<variant, updater, config, secrets, registry, implToService,
          subclasses, instances, op, arg, ret, log, calls, cycle>>

\* the registries after the import of ddns_service_adapters.py
ImportedRegistry == register(<<>>, NameCheap)

ImportedImplToService == register_impl(<<>>, NameCheap)

\* what a secrets file may hold
SecretContents == {<<"pw", "\n">>, <<"pw2">>, <<" ", "pw3", "\n">>}

\* the file at the path: its content, or unreadable; writes counts the times
\* it was rewritten since the process started
SecretFiles(path) ==
    {[path |-> path, readable |-> TRUE, content |-> c, writes |-> 0] :
        c \in SecretContents}
        \cup {[path |-> path, readable |-> FALSE, content |-> <<>>, writes |-> 0]}

\* DDNSUpdater.__init__() of lanmanagement/ddns_updater.py, up to the first cycle
DDNSUpdater_init(cfg, reg, debug) ==
    [debug |-> debug,
     dig_binary |-> <<"/usr/bin/dig">>,
     curl_binary |-> <<"/usr/bin/curl">>,
     service_adapter |-> get_service_adapter(cfg, reg, namecheap).value,
     host |-> cfg.options[namecheap]["host"],
     domain |-> cfg.options[namecheap]["domain"]]

\* DDNSUpdater.__init__() of src/ddns_updater.py, up to the first cycle
DDNSUpdater_init_src(host, domain) ==
    [debug |-> FALSE,
     dig_binary |-> <<"/usr/bin/dig">>,
     curl_binary |-> <<"/usr/bin/curl">>,
     service_adapter |-> new_object(<<>>),
     host |-> host,
     domain |-> domain]

\* no updater: the adapters are used on their own
NoUpdater == DDNSUpdater_init_src(<<>>, <<>>)

InitLan ==
    /\ variant = "lan"
    /\ \E missing \in SUBSET {"url_root", "secrets_file"} :
           config = Config(<<namecheap>>, missing)
    /\ secrets \in SecretFiles(expand_path(SECRETS_OPTION))
    /\ registry = ImportedRegistry
    /\ implToService = ImportedImplToService
    /\ subclasses = <<NameCheap>>
    /\ \E debug \in BOOLEAN : updater = DDNSUpdater_init(config, registry, debug)
    /\ instances = {updater.service_adapter}

InitSrc ==
    /\ variant = "src"
    /\ config = Config(<<>>, {})
    /\ secrets \in SecretFiles(DDNS_PASSWORD_FILE)
    /\ registry = <<>>
    /\ implToService = <<>>
    /\ subclasses = <<>>
    /\ updater = DDNSUpdater_init_src(AllOptions["host"], AllOptions["domain"])
    /\ instances = {}

NoOp ==
    /\ op = "init"
    /\ arg = <<>>
    /\ ret = Returned(<<>>)
    /\ log = <<>>
    /\ calls = <<>>
    /\ cycle = 0

Init == (InitLan \/ InitSrc) /\ NoOp

\* one cycle of lanmanagement/ddns_updater.py
ReportOwnIp ==
    /\ variant = "lan"
    /\ cycle < MaxCycles
    /\ \E x \in Outcomes :
           LET c == report_own_ip(updater, secrets, x)
           IN  /\ ret' = c.ret
               /\ log' = c.log
               /\ calls' = c.calls
    /\ op' = "report_own_ip"
    /\ arg' = <<>>
    /\ cycle' = cycle + 1
    /\ UNCHANGED <<variant, updater, config, secrets, registry, implToService,
                   subclasses, instances>>

\* one cycle of src/ddns_updater.py
ReportOwnIpSrc ==
    /\ variant = "src"
    /\ cycle < MaxCycles
    /\ \E x \in Outcomes :
           LET c == report_own_ip_src(updater, secrets, x)
           IN  /\ ret' = c.ret
               /\ log' = c.log
               /\ calls' = c.calls
    /\ op' = "report_own_ip"
    /\ arg' = <<>>
    /\ cycle' = cycle + 1
    /\ UNCHANGED <<variant, updater, config, secrets, registry, implToService,
                   subclasses, instances>>

\* the secrets file is rewritten, or removed, after an operation has ended
WriteSecret ==
    /\ op \in {"report_own_ip", "ddns_update_url", "_retrieve_secret"}
    /\ cycle < MaxCycles
    /\ secrets.writes < MaxWrites
    /\ \E f \in SecretFiles(secrets.path) :
           /\ f.readable # secrets.readable \/ f.content # secrets.content
           /\ secrets' = [f EXCEPT !.writes = secrets.writes + 1]
    /\ op' = "write_secret"
    /\ arg' = <<>>
    /\ ret' = Returned(<<>>)
    /\ log' = <<>>
    /\ calls' = <<>>
    /\ UNCHANGED <<variant, updater, config, registry, implToService,
                   subclasses, instances, cycle>>

Next == ReportOwnIp \/ ReportOwnIpSrc \/ WriteSecret

Spec == Init /\ [][Next]_vars

----------------------------------------------------------------------------
(* The adapters on their own: registration, the factory, the listing *)

InitRegistry ==
    /\ variant = "none"
    /\ updater = NoUpdater
    /\ \E l \in DistinctSectionLists(MaxSections) : config = Config(l, {})
    /\ secrets \in SecretFiles(expand_path(SECRETS_OPTION))
    /\ registry = ImportedRegistry
    /\ implToService = ImportedImplToService
    /\ subclasses = <<NameCheap>>
    /\ instances = {}
    /\ NoOp

\* class <cls>(DDNSServiceAdapter): __init_subclass__ registers the class
DefineSubclass ==
    /\ Len(subclasses) < 1 + MaxClasses
    /\ \E cls \in ExtraClasses :
           /\ \A i \in 1..Len(subclasses) : subclasses[i] # cls
           /\ registry' = register(registry, cls)
           /\ implToService' = register_impl(implToService, cls)
           /\ subclasses' = Append(subclasses, cls)
           /\ arg' = cls
    /\ op' = "define_subclass"
    /\ ret' = Returned(<<>>)
    /\ UNCHANGED <<variant, updater, config, secrets, instances, log, calls, cycle>>

\* manager.get_service_adapter(service_name)
GetServiceAdapter ==
    /\ \E service_name \in ServiceNames :
           LET r == get_service_adapter(config, registry, service_name)
           IN  /\ ret' = r
               /\ arg' = service_name
               /\ instances' = IF r.raised = "none"
                               THEN instances \cup {r.value} ELSE instances
    /\ op' = "get_service_adapter"
    /\ UNCHANGED <<variant, updater, config, secrets, registry, implToService,
                   subclasses, log, calls, cycle>>

\* NameCheap()
DirectInstantiation ==
    /\ ret' = NameCheap_init
    /\ instances' = IF NameCheap_init.raised = "none"
                    THEN instances \cup {NameCheap_init.value} ELSE instances
    /\ op' = "NameCheap"
    /\ arg' = <<>>
    /\ UNCHANGED <<variant, updater, config, secrets, registry, implToService,
                   subclasses, log, calls, cycle>>

\* manager.services_list()
ServicesList ==
    /\ ret' = Returned(services_list(config, registry))
    /\ op' = "services_list"
    /\ arg' = <<>>
    /\ UNCHANGED <<variant, updater, config, secrets, registry, implToService,
                   subclasses, instances, log, calls, cycle>>

\* DDNSUpdater.services_list() of an updater that holds the adapter a
UpdaterServicesList ==
    /\ \E a \in instances :
           ret' = Returned(DDNSUpdater_services_list(
                               [NoUpdater EXCEPT !.service_adapter = a], registry))
    /\ op' = "DDNSUpdater.services_list"
    /\ arg' = <<>>
    /\ UNCHANGED <<variant, updater, config, secrets, registry, implToService,
                   subclasses, instances, log, calls, cycle>>

NextRegistry ==
    \/ DefineSubclass
    \/ GetServiceAdapter
    \/ DirectInstantiation
    \/ ServicesList
    \/ UpdaterServicesList

SpecRegistry == InitRegistry /\ [][NextRegistry]_vars

----------------------------------------------------------------------------
(* The adapters on their own: the constructor, the secret, the update URL *)

\* the new_ip arguments of ddns_update_url()
NewIps == IPs \cup {<<>>, <<"1", "&", "ip=", "2">>}

InitAdapter ==
    /\ variant = "none"
    /\ updater = NoUpdater
    /\ \E missing \in SUBSET OptionNames : config = Config(<<namecheap>>, missing)
    /\ secrets \in SecretFiles(expand_path(SECRETS_OPTION))
    /\ registry = ImportedRegistry
    /\ implToService = ImportedImplToService
    /\ subclasses = <<NameCheap>>
    /\ instances = {}
    /\ NoOp

\* DDNSServiceAdapter(config_file), for whatever is at the path
NewDDNSServiceAdapter ==
    /\ \E file \in ConfigFiles :
           /\ ret' = DDNSServiceAdapter_init(file)
           /\ arg' = file
    /\ op' = "DDNSServiceAdapter"
    /\ UNCHANGED <<variant, updater, config, secrets, registry, implToService,
                   subclasses, instances, log, calls, cycle>>

\* obj._retrieve_secret(service_name), on the manager or on an adapter
RetrieveSecret ==
    /\ \E self \in instances \cup {manager_object(config)},
          service_name \in {namecheap, NameCheap, dyn} :
           /\ ret' = retrieve_secret(self, service_name, secrets)
           /\ arg' = [self |-> self, service_name |-> service_name]
    /\ op' = "_retrieve_secret"
    /\ UNCHANGED <<variant, updater, config, secrets, registry, implToService,
                   subclasses, instances, log, calls, cycle>>

\* adapter.ddns_update_url(new_ip)
DdnsUpdateUrl ==
    /\ \E self \in instances, new_ip \in NewIps :
           /\ ret' = ddns_update_url(self, new_ip, secrets)
           /\ arg' = [self |-> self, new_ip |-> new_ip]
    /\ op' = "ddns_update_url"
    /\ UNCHANGED <<variant, updater, config, secrets, registry, implToService,
                   subclasses, instances, log, calls, cycle>>

NextAdapter ==
    \/ GetServiceAdapter
    \/ NewDDNSServiceAdapter
    \/ RetrieveSecret
    \/ DdnsUpdateUrl
    \/ WriteSecret

SpecAdapter == InitAdapter /\ [][NextAdapter]_vars

----------------------------------------------------------------------------
(* The programs: main() of lanmanagement/ddns_updater.py, and the __main__  *)
(* block of src/ddns_updater.py, each with the constructor that it calls    *)

\* sys.exit(1)
SystemExit == Raised("SystemExit", <<"1">>)

\* the exit status of the process: 0 when the program ran to its end, 1
\* after sys.exit(1) and after an exception that nothing caught
exit_status(r) == IF r.raised = "none" THEN 0 ELSE 1

\* print(text)
Printed(text) == Call("print", text, NotRun)

\* how a program or a constructor ended: the entries it logged, the calls it
\* made, the updater it left, the cycles it ran
Ended(r, entries, called, self, cycles) ==
    [ret |-> r, log |-> entries, calls |-> called, updater |-> self,
     cycles |-> cycles]

\* service_adapter.service_options(): the options of the adapter's section
service_options(adapter, service_nm) == adapter.config.options[service_nm]

\* a constructor that ends without a cycle
after_cycle_none(self, c) == Ended(Returned(<<>>), <<>>, <<>>, self, 0)

\* how a constructor ends whose last statement is the cycle c
after_cycle(self, c) == Ended(c.ret, c.log, c.calls, self, 1)

\* DDNSUpdater.__init__() of lanmanagement/ddns_updater.py
DDNSUpdater_new(service_nm, file, debug, dig, curl, reg, secretfile, x) ==
    IF ~dig
    THEN Ended(SystemExit, <<Error(<<"Could not find needed command '", "dig", "'">>)>>,
               <<>>, NoUpdater, 0)
    ELSE IF ~curl
    THEN Ended(SystemExit, <<Error(<<"Could not find needed command '", "curl", "'">>)>>,
               <<>>, NoUpdater, 0)
    ELSE
    LET manager == DDNSServiceAdapter_init(file)
    IN  IF manager.raised # "none" THEN Ended(manager, <<>>, <<>>, NoUpdater, 0)
        ELSE
    LET adapter == get_service_adapter(manager.value.config, reg, service_nm)
    IN  IF adapter.raised # "none" THEN Ended(adapter, <<>>, <<>>, NoUpdater, 0)
        ELSE
    LET options == service_options(adapter.value, service_nm)
    IN  IF "host" \notin DOMAIN options
        THEN Ended(SystemExit,
                   <<Error(<<"Init file at ">> \o CONFIG_FILE
                              \o <<" has no entry for '", "host", "'">>)>>,
                   <<>>, NoUpdater, 0)
        ELSE IF "domain" \notin DOMAIN options
        THEN Ended(SystemExit,
                   <<Error(<<"Init file at ">> \o CONFIG_FILE
                              \o <<" has no entry for '", "domain", "'">>)>>,
                   <<>>, NoUpdater, 0)
        ELSE
    LET self == [debug |-> debug,
                 dig_binary |-> <<"/usr/bin/dig">>,
                 curl_binary |-> <<"/usr/bin/curl">>,
                 service_adapter |-> adapter.value,
                 host |-> options["host"],
                 domain |-> options["domain"]]
    IN  after_cycle(self, report_own_ip(self, secretfile, x))

\* main(), from the call of the constructor on: made is how DDNSUpdater(...)
\* ended; with --list the names of services_list() are printed after it
after_constructor(env, reg, made) ==
    LET called == <<Call("DDNSUpdater", <<env.service_nm, CONFIG_FILE>>, NotRun)>>
                      \o made.calls
        names  == IF made.ret.raised = "none" /\ env.list
                  THEN DDNSUpdater_services_list(made.updater, reg)
                  ELSE <<>>
    IN  Ended(made.ret, made.log,
              called \o [i \in 1..Len(names) |-> Printed(names[i])],
              made.updater, made.cycles)

\* a preflight that asks for root also with --debug
must_be_root_always(euid_root, debug) == ~euid_root

\* main(): os.geteuid() != 0 and not args.debug
must_be_root(euid_root, debug) == ~euid_root /\ ~debug

\* main() of lanmanagement/ddns_updater.py
main(env, reg, secretfile, x) ==
    LET errors ==
            (IF ~env.file.exists
             THEN <<<<"Config file ">> \o CONFIG_FILE \o <<" not found">>>>
             ELSE <<>>)
            \o (IF must_be_root(env.euid_root, env.debug)
                THEN <<<<"Program ddns_updater.py must run as sudo">>>>
                ELSE <<>>)
    IN  IF Len(errors) > 0
        THEN Ended(SystemExit, <<>>,
                   <<Printed(<<"Problems:">>)>>
                       \o [i \in 1..Len(errors) |-> Printed(<<"   ">> \o errors[i])],
                   NoUpdater, 0)
        ELSE
    after_constructor(env, reg,
                      DDNSUpdater_new(env.service_nm, env.file, env.debug,
                                      env.dig, env.curl, reg, secretfile, x))

\* __init__() of src/ddns_updater.py after its first cycle c: with period 0
\* it returns; else the loop goes on to os.sleep(), which does not exist
after_cycle_src(self, period, c) ==
    IF period = 0 \/ c.ret.raised # "none"
    THEN after_cycle(self, c)
    ELSE Ended(Raised("AttributeError", <<"module 'os' has no attribute 'sleep'">>),
               c.log, c.calls, self, 1)

\* DDNSUpdater.__init__() of src/ddns_updater.py
DDNSUpdater_new_src(host, domain, period, dig, curl, secretfile, x) ==
    IF ~dig
    THEN Ended(SystemExit, <<Error(<<"Could not find needed command '", "dig", "'">>)>>,
               <<>>, NoUpdater, 0)
    \* self.logger(...): the logger is called as if it were a function
    ELSE IF ~curl
    THEN Ended(Raised("TypeError", <<"'Logger' object is not callable">>),
               <<>>, <<>>, NoUpdater, 0)
    ELSE
    LET self == DDNSUpdater_init_src(host, domain)
    IN  after_cycle_src(self, period, report_own_ip_src(self, secretfile, x))

\* the __main__ block, from the call of the constructor on
after_constructor_src(env, made) ==
    Ended(made.ret, made.log,
          <<Call("DDNSUpdater", <<env.host, env.domain>>, NotRun)>> \o made.calls,
          made.updater, made.cycles)

\* the __main__ block of src/ddns_updater.py
main_src(env, secretfile, x) ==
    IF env.period < 0
    THEN Ended(SystemExit, <<>>,
               <<Printed(<<"IP check period must be a positive int, or zero, not ",
                           ToString(env.period)>>)>>,
               NoUpdater, 0)
    ELSE IF ~check_domain_syntax(env.domain)
    THEN Ended(SystemExit, <<>>,
               <<Printed(<<"Domain '">> \o env.domain
                            \o <<"' is not proper domain syntax">>)>>,
               NoUpdater, 0)
    ELSE
    after_constructor_src(env,
                          DDNSUpdater_new_src(env.host, env.domain, env.period,
                                              env.dig, env.curl, secretfile, x))

\* the domains of a configuration or a command line: one that
\* check_domain_syntax() accepts, and one that it rejects
Domains == {AllOptions["domain"], <<"-", "d", ".", "c", "o", "m">>}

\* the configuration files that main() is run on
MainConfigFiles ==
    {ConfigFile(FALSE, TRUE, <<>>, {}, AllOptions["domain"]),
     ConfigFile(TRUE, TRUE, <<>>, {}, AllOptions["domain"])}
        \cup {ConfigFile(TRUE, TRUE, <<namecheap>>, m, d) :
                  m \in {{}, {"host"}, {"domain"}}, d \in Domains}

\* the command line and the environment of lanmanagement/ddns_updater.py
MainEnvs ==
    [service_nm : {namecheap, dyn}, debug : BOOLEAN, list : BOOLEAN,
     euid_root : BOOLEAN, file : MainConfigFiles, dig : BOOLEAN, curl : BOOLEAN]

\* the command line and the environment of src/ddns_updater.py
MainSrcEnvs ==
    [period : {-1, 0, 1}, host : {AllOptions["host"]}, domain : Domains,
     dig : BOOLEAN, curl : BOOLEAN]

\* the outcomes of the processes of the cycle that a program runs: the own
\* IP is "2", the published IP is "1" or "2"
MainOutcomes ==
    {x \in Outcomes :
        /\ x.curlOwn.stdout \in {<<"2", "\n">>, <<>>}
        /\ x.curlOwn.returncode = 0 => x.curlOwn.stdout # <<>>
        /\ x.digNs.stdout # <<>> \/ x.digNs = NotRun \/ x.digNs.returncode # 0
        /\ x.digA.stdout \in {<<"1", "\n">>, <<"2", "\n">>, <<>>}
        /\ (x.digNs.returncode = 0 /\ x.digNs # NotRun /\ x.digA.returncode = 0)
               => x.digA.stdout # <<>>}

InitMain ==
    /\ variant \in {"lan", "src"}
    /\ updater = NoUpdater
    /\ config = Config(<<>>, {})
    /\ secrets \in SecretFiles(IF variant = "lan"
                                THEN expand_path(SECRETS_OPTION)
                                ELSE DDNS_PASSWORD_FILE)
    /\ registry = IF variant = "lan" THEN ImportedRegistry ELSE <<>>
    /\ implToService = IF variant = "lan" THEN ImportedImplToService ELSE <<>>
    /\ subclasses = IF variant = "lan" THEN <<NameCheap>> ELSE <<>>
    /\ instances = {}
    /\ NoOp

\* one run of lanmanagement/ddns_updater.py
Main ==
    /\ variant = "lan"
    /\ op = "init"
    /\ \E env \in MainEnvs, x \in MainOutcomes :
           \E m \in {main(env, registry, secrets, x)} :
               /\ arg' = env
               /\ ret' = m.ret
               /\ log' = m.log
               /\ calls' = m.calls
               /\ updater' = m.updater
               /\ cycle' = cycle + m.cycles
               /\ config' = IF m.cycles > 0
                             THEN m.updater.service_adapter.config ELSE config
               /\ instances' = IF m.cycles > 0
                                THEN instances \cup {m.updater.service_adapter}
                                ELSE instances
    /\ op' = "main"
    /\ UNCHANGED <<variant, secrets, registry, implToService, subclasses>>

\* one run of src/ddns_updater.py
MainSrc ==
    /\ variant = "src"
    /\ op = "init"
    /\ \E env \in MainSrcEnvs, x \in MainOutcomes :
           \E m \in {main_src(env, secrets, x)} :
               /\ arg' = env
               /\ ret' = m.ret
               /\ log' = m.log
               /\ calls' = m.calls
               /\ updater' = m.updater
               /\ cycle' = cycle + m.cycles
    /\ op' = "main"
    /\ UNCHANGED <<variant, config, secrets, registry, implToService,
                   subclasses, instances>>

NextMain == Main \/ MainSrc

SpecMain == InitMain /\ [][NextMain]_vars

----------------------------------------------------------------------------
(* check_domain_syntax() on its own *)

RECURSIVE Strings(_, _)
\* the strings over the alphabet, of length 0..n
Strings(alphabet, n) ==
    IF n = 0 THEN {<<>>}
    ELSE LET shorter == Strings(alphabet, n - 1)
         IN  shorter \cup
             {Append(t, c) : t \in {u \in shorter : Len(u) = n - 1}, c \in alphabet}

\* the character c, n times
Rep(c, n) == [i \in 1..n |-> c]

\* label lengths at and around the limit of the pattern
LabelLens == {1, MAX_LABEL_LEN, MAX_LABEL_LEN + 1}

\* TLD lengths: too short, short, around the limit of a label, and those that
\* bring three labels of 63 characters to 253 and 254 characters
TldLens == {1, 2, MAX_LABEL_LEN - 2, MAX_LABEL_LEN - 1, MAX_LABEL_LEN,
            MAX_LABEL_LEN + 1}

RECURSIVE LongPrefixes(_)
\* 0..n labels of the letter a, each with its dot
LongPrefixes(n) ==
    IF n = 0 THEN {<<>>}
    ELSE LET shorter == LongPrefixes(n - 1)
         IN  shorter \cup {p \o Rep("a", l) \o <<".">> : p \in shorter, l \in LabelLens}

\* domain strings with long labels: labels of the letter a, a TLD of the
\* letter c
LongDomains ==
    {p \o Rep("c", t) : p \in LongPrefixes(MaxLabels) \ {<<>>}, t \in TldLens}

\* the arguments that check_domain_syntax() is tried on
DomainArgs ==
    {NotAStr}
        \cup {StrArg(d) : d \in Strings({"a", "-", ".", "\n"}, MaxDomainLen)}
        \cup {StrArg(d) : d \in Strings({"a", "B", "1", "_", "."}, MaxDomainLen - 2)}
        \cup {StrArg(d) : d \in LongDomains}

InitDomain ==
    /\ variant = "none"
    /\ updater = NoUpdater
    /\ config = Config(<<>>, {})
    /\ secrets \in {s \in SecretFiles(DDNS_PASSWORD_FILE) : ~s.readable}
    /\ registry = <<>>
    /\ implToService = <<>>
    /\ subclasses = <<>>
    /\ instances = {}
    /\ op = "init"
    /\ arg \in DomainArgs
    /\ ret = Returned(<<>>)
    /\ log = <<>>
    /\ calls = <<>>
    /\ cycle = 0

\* DDNSUpdater.check_domain_syntax(arg)
CheckDomainSyntax ==
    /\ op = "init"
    /\ ret' = Returned(check_domain_syntax_any(arg))
    /\ op' = "check_domain_syntax"
    /\ UNCHANGED <<variant, updater, config, secrets, registry, implToService,
                   subclasses, instances, arg, log, calls, cycle>>

NextDomain == CheckDomainSyntax

SpecDomain == InitDomain /\ [][NextDomain]_vars

----------------------------------------------------------------------------
(* What a finished cycle shows *)

\* a report_own_ip() cycle has just ended
CycleDone == op = "report_own_ip"

\* the calls of the cycle that the step made
StepCalls(step) == SelectSeq(calls, LAMBDA c : c.step = step)

\* the step ran a process, and it ended with exit code 0
StepSucceeded(step) ==
    /\ StepCalls(step) # <<>>
    /\ StepCalls(step)[1].result.returncode = 0

\* the step ran a process, and it ended with a nonzero exit code
StepFailed(step) ==
    /\ StepCalls(step) # <<>>
    /\ StepCalls(step)[1].result.returncode # 0

\* the own-IP lookup and the published-IP lookup both succeeded
LookupsSucceeded ==
    StepSucceeded("own_ip") /\ StepSucceeded("ns") /\ StepSucceeded("a")

\* the trimmed response of the own-IP service
OwnIp == rstrip(StepCalls("own_ip")[1].result.stdout)

\* the trimmed output of the A query
PublishedIp == rstrip(StepCalls("a")[1].result.stdout)

\* the entries of the log that are errors
Errors == SelectSeq(log, LAMBDA e : e.level = "error")

\* the log has the success message of an update
SuccessLogged ==
    \E i \in 1..Len(log) :
        /\ Len(log[i].text) >= 1
        /\ log[i].text[1] = "Reported updated "

\* the log has the message of the debug bypass
BypassLogged ==
    \E i \in 1..Len(log) :
        log[i] = Info(<<"Bypassing DDNS service update because --debug">>)

\* what the adapter of the updater returns for the own IP of the cycle
AdapterUrl == ddns_update_url(updater.service_adapter, OwnIp, secrets)

----------------------------------------------------------------------------
(* Claims about one cycle *)

\* C1: whatever the outcomes of the own-IP curl call, the NS dig call and the
\* A-record dig call, report_own_ip() of lanmanagement/ddns_updater.py returns
\* normally: no exception propagates out of it.
C1_ReturnsNormally ==
    (variant = "lan" /\ CycleDone) => ret.raised = "none"

\* C2: when both lookups succeed and the trimmed own IP equals the trimmed
\* published IP, the cycle makes no update HTTP call, does not call the
\* adapter's ddns_update_url(), and logs no error.
C2_NoChangeNoUpdate ==
    (variant = "lan" /\ CycleDone /\ LookupsSucceeded /\ OwnIp = PublishedIp)
        => /\ StepCalls("update") = <<>>
           /\ StepCalls("adapter") = <<>>
           /\ Errors = <<>>
           /\ ret.raised = "none"

\* a cycle that found the own IP "1" published already
C2_Witness ==
    /\ variant = "lan" /\ CycleDone /\ LookupsSucceeded
    /\ OwnIp = <<"1">> /\ PublishedIp = <<"1">>
    /\ StepCalls("own_ip")[1].result.stdout # StepCalls("a")[1].result.stdout

\* C3: with debug off, when both lookups succeed, the IPs differ and the
\* adapter returns a URL, the cycle makes exactly one update HTTP call; its
\* URL is ddns_update_url(own IP), which ends with the own IP as ip parameter.
C3_OneUpdateWithOwnIp ==
    (/\ variant = "lan" /\ CycleDone /\ ~updater.debug
     /\ LookupsSucceeded /\ OwnIp # PublishedIp
     /\ AdapterUrl.raised = "none")
        => /\ Len(StepCalls("update")) = 1
           /\ StepCalls("update")[1].argv = <<updater.curl_binary, AdapterUrl.value>>
           /\ EndsWith(StepCalls("update")[1].argv[2], <<"&", "ip=">> \o OwnIp)

\* a cycle that reported the own IP "2" while "1" was published
C3_Witness ==
    /\ variant = "lan" /\ CycleDone /\ ~updater.debug
    /\ LookupsSucceeded /\ OwnIp = <<"2">> /\ PublishedIp = <<"1">>
    /\ AdapterUrl.raised = "none"
    /\ Len(StepCalls("update")) = 1

\* C4: when the update curl call ends with a nonzero exit code, an error
\* that names the attempted URL is logged, the success message is not logged
\* in that cycle, and report_own_ip() returns without raising.
C4_UpdateFailureLogged ==
    (variant = "lan" /\ CycleDone /\ StepFailed("update"))
        => /\ \E i \in 1..Len(log) :
                  /\ log[i].level = "error"
                  /\ Contains(log[i].text, StepCalls("update")[1].argv[2])
           /\ ~SuccessLogged
           /\ ret.raised = "none"

\* a cycle whose update call failed
C4_Witness ==
    /\ variant = "lan" /\ CycleDone /\ StepFailed("update")
    /\ Len(Errors) = 1

\* C5: in both DDNSUpdater variants, when the IPs differ and the update curl
\* call ends with exit code 0, report_own_ip() logs, as the last entry of the
\* cycle, the info 'Reported updated <old> => <new>' and returns normally.
C5_SuccessLogged ==
    (CycleDone /\ StepSucceeded("update"))
        => /\ log # <<>>
           /\ log[Len(log)] =
                  Info(<<"Reported updated ">> \o PublishedIp \o <<" => ">> \o OwnIp)
           /\ ret.raised = "none"

\* C6, as stated: with debug on, a cycle in which the IPs differ makes both
\* lookups and the ddns_update_url(own IP) call, then logs the bypass, makes
\* no update HTTP call, and logs neither a success message nor an error.
C6_Original ==
    (/\ variant = "lan" /\ CycleDone /\ updater.debug
     /\ LookupsSucceeded /\ OwnIp # PublishedIp)
        => /\ Len(StepCalls("adapter")) = 1
           /\ StepCalls("adapter")[1].argv = <<OwnIp>>
           /\ BypassLogged
           /\ StepCalls("update") = <<>>
           /\ ~SuccessLogged
           /\ Errors = <<>>

\* C6, amended: with debug on, a cycle in which the IPs differ makes both
\* lookups and the ddns_update_url(own IP) call and makes no update HTTP call
\* and logs no success message; when ddns_update_url() returns a URL it logs
\* the bypass as its last entry and no error, and when ddns_update_url()
\* raises it logs one error and no bypass.
C6_DebugBypass ==
    (/\ variant = "lan" /\ CycleDone /\ updater.debug
     /\ LookupsSucceeded /\ OwnIp # PublishedIp)
        => /\ Len(StepCalls("adapter")) = 1
           /\ StepCalls("adapter")[1].argv = <<OwnIp>>
           /\ StepCalls("update") = <<>>
           /\ ~SuccessLogged
           /\ ret.raised = "none"
           /\ (AdapterUrl.raised = "none"
                 => /\ log[Len(log)] =
                           Info(<<"Bypassing DDNS service update because --debug">>)
                    /\ Errors = <<>>)
           /\ (AdapterUrl.raised # "none"
                 => /\ ~BypassLogged
                    /\ Len(Errors) = 1)

\* a debug cycle that found the IPs to differ and bypassed the update
C6_Witness ==
    /\ variant = "lan" /\ CycleDone /\ updater.debug
    /\ LookupsSucceeded /\ OwnIp = <<"1">> /\ PublishedIp = <<"2">>
    /\ BypassLogged

----------------------------------------------------------------------------
(* Claims about the adapters: the factory, the listing, the registry *)

NoEntryText == <<"' has no entry in config file ">>

NotImplementedText == <<"' is not implemented">>

\* the two ways get_service_adapter() fails
SectionMissingError(r) == r.raised # "none" /\ Contains(r.msg, NoEntryText)

AdapterMissingError(r) == r.raised # "none" /\ Contains(r.msg, NotImplementedText)

\* what get_service_adapter(name) returns or raises, whatever the kinds of
\* its two failures
C7_Outcomes ==
    /\ ~has_section(config, arg) => SectionMissingError(ret)
    /\ (has_section(config, arg) /\ arg \notin DOMAIN registry)
           => AdapterMissingError(ret)
    /\ (has_section(config, arg) /\ arg \in DOMAIN registry)
           => /\ ret.raised = "none"
              /\ ret.value \in instances
              /\ ret.value.cls = registry[arg]

\* C7, as stated: get_service_adapter(name) fails with the section-missing
\* error when the configuration has no section name, registered or not, fails
\* with the adapter-not-implemented error when the section exists and no
\* adapter is registered, and returns an adapter otherwise; the two failures
\* are of different kinds.
C7_Original ==
    op = "get_service_adapter"
        => /\ C7_Outcomes
           /\ \A other \in ServiceNames :
                  LET r == get_service_adapter(config, registry, other)
                  IN  (SectionMissingError(ret) /\ AdapterMissingError(r))
                          => r.raised # ret.raised

\* C7, amended: the same outcomes, but the two failures are both raised as
\* NotImplementedError; they differ in their message only ("has no entry in
\* config file" against "is not implemented").
C7_FactoryOutcomes ==
    op = "get_service_adapter"
        => /\ C7_Outcomes
           /\ ret.raised \in {"none", "NotImplementedError"}
           /\ ~(SectionMissingError(ret) /\ AdapterMissingError(ret))
           /\ \A other \in ServiceNames :
                  LET r == get_service_adapter(config, registry, other)
                  IN  (SectionMissingError(ret) /\ AdapterMissingError(r))
                          => /\ r.raised = ret.raised
                             /\ ~Contains(r.msg, NoEntryText)
                             /\ ~Contains(ret.msg, NotImplementedText)

\* a call for a registered adapter whose section is missing, in a
\* configuration that has a section without an adapter
C7_Witness ==
    /\ op = "get_service_adapter"
    /\ ~has_section(config, arg) /\ arg \in DOMAIN registry
    /\ SectionMissingError(ret)
    /\ \E other \in ServiceNames :
           AdapterMissingError(get_service_adapter(config, registry, other))

\* the name is a registered adapter and a section of the configuration
InBoth(n) == has_section(config, n) /\ n \in DOMAIN registry

\* the place of a section in the configuration
SectionIndex(n) == CHOOSE i \in 1..Len(config.sections) : config.sections[i] = n

\* C8: services_list() returns exactly the names that are registered adapters
\* and sections of the configuration, in the order of the sections; it returns
\* the empty list, and raises nothing, when no name is in both sets.
C8_ServicesList ==
    op \in {"services_list", "DDNSUpdater.services_list"}
        => /\ ret.raised = "none"
           /\ \A i \in 1..Len(ret.value) : InBoth(ret.value[i])
           /\ \A n \in SectionNames :
                  InBoth(n) => \E i \in 1..Len(ret.value) : ret.value[i] = n
           /\ \A i, j \in 1..Len(ret.value) :
                  i < j => SectionIndex(ret.value[i]) < SectionIndex(ret.value[j])
           /\ (~\E n \in SectionNames : InBoth(n)) => ret.value = <<>>

\* a listing of two providers, in the order of the configuration
C8_Witness ==
    /\ op \in {"services_list", "DDNSUpdater.services_list"}
    /\ ret.value = <<dyn, namecheap>>

\* every entry of the registry has its reverse entry, under the lowercase
\* form of the class name
C9_Bidirectional ==
    \A n \in DOMAIN registry :
        /\ registry[n] \in DOMAIN implToService
        /\ implToService[registry[n]] = n
        /\ n = lower(registry[n])

\* C9, as stated: after any sequence of subclass definitions every entry
\* name -> class of the registry has the entry class -> name in the reverse
\* registry, every name is the lowercase form of the class name, and
\* 'namecheap' maps to NameCheap.
C9_Original ==
    /\ C9_Bidirectional
    /\ namecheap \in DOMAIN registry
    /\ registry[namecheap] = NameCheap

\* the subclasses defined so far whose lowercase name is n
DefinedAs(n) == SelectSeq(subclasses, LAMBDA c : lower(c) = n)

\* C9, amended: the same, but 'namecheap' maps to the subclass defined last
\* among those whose lowercase name is 'namecheap'; that is NameCheap as long
\* as no other subclass with such a name has been defined.
C9_RegistryConsistent ==
    /\ C9_Bidirectional
    /\ namecheap \in DOMAIN registry
    /\ registry[namecheap] = DefinedAs(namecheap)[Len(DefinedAs(namecheap))]
    /\ Len(DefinedAs(namecheap)) = 1 => registry[namecheap] = NameCheap

\* two more subclasses are defined, and one took the entry of the other
C9_Witness ==
    /\ op = "define_subclass"
    /\ Len(subclasses) = 3
    /\ Cardinality(DOMAIN registry) = 2
    /\ registry[namecheap] = NameCheap

\* C10: NameCheap() raises TypeError and yields no instance: every adapter
\* instance in existence was made by get_service_adapter(), which bound the
\* configuration to it.
C10_OnlyThroughFactory ==
    /\ op = "NameCheap" => ret.raised = "TypeError"
    /\ \A o \in instances : o.has_config /\ o.config = config

\* NameCheap() was tried while an instance made by the factory exists
C10_Witness ==
    /\ op = "NameCheap"
    /\ ret.raised = "TypeError"
    /\ \E o \in instances : o.cls = NameCheap

----------------------------------------------------------------------------
(* Claims about the update URL, the secret and the configuration file *)

\* the options of the namecheap section that the configuration has
Has(option) == has_option(config, namecheap, option)

\* the secrets file is at the path that the secrets_file option expands to
SecretReadable ==
    /\ Has("secrets_file")
    /\ secrets.readable
    /\ secrets.path = expand_path(config.options[namecheap]["secrets_file"])

\* C11: for a namecheap section that has url_root, host, domain and a
\* readable secrets_file, and for every new_ip, ddns_update_url(new_ip)
\* returns url_root + 'host=' + host + '&domain=' + domain + '&password=' +
\* secret + '&ip=' + new_ip: the four parameters in that order, the secret
\* (the trimmed content of the file) and the IP as they are.
C11_UrlFormat ==
    (/\ op = "ddns_update_url"
     /\ Has("url_root") /\ Has("host") /\ Has("domain") /\ SecretReadable)
        => ret = Returned(config.options[namecheap]["url_root"]
                          \o <<"host=">> \o config.options[namecheap]["host"]
                          \o <<"&", "domain=">> \o config.options[namecheap]["domain"]
                          \o <<"&", "password=">> \o strip(secrets.content)
                          \o <<"&", "ip=">> \o arg.new_ip)

\* a URL for a new_ip that has an '&' in it, with the secret of a file that
\* ends in a newline
C11_Witness ==
    /\ op = "ddns_update_url"
    /\ arg.new_ip = <<"1", "&", "ip=", "2">>
    /\ secrets.content = <<"pw", "\n">>
    /\ ret = Returned(<<"https://x/update?", "host=", "h", "&", "domain=",
                        "d", ".", "c", "o", "m", "&", "password=", "pw",
                        "&", "ip=", "1", "&", "ip=", "2">>)

\* the options of the namecheap section that the configuration lacks
Absent == {o \in OptionNames : ~Has(o)}

\* C12: when exactly one of the options url_root, host, domain and
\* secrets_file is absent from the namecheap section, ddns_update_url() raises
\* KeyError with a message that names the absent option, and returns no URL.
C12_MissingOption ==
    (op = "ddns_update_url" /\ Cardinality(Absent) = 1)
        => /\ ret.raised = "KeyError"
           /\ \A o \in Absent : Contains(ret.msg, <<o>>)

\* the URL that the adapter returned in the cycle
CycleUrl == StepCalls("adapter")[1].result.value

\* the password parameter of a URL, for the secret that a content stands for
PasswordOf(content) == <<"&", "password=">> \o strip(content) \o <<"&", "ip=">>

\* C13: the secret is read from the secrets file on every ddns_update_url()
\* call and is not cached: the URL that a cycle builds has the content that
\* the file has at that cycle, also after the file was rewritten between two
\* cycles, and has no other content.
C13_SecretReadEachCycle ==
    (/\ variant = "lan" /\ CycleDone
     /\ StepCalls("adapter") # <<>>
     /\ StepCalls("adapter")[1].result.raised = "none")
        => /\ secrets.readable
           /\ Contains(CycleUrl, PasswordOf(secrets.content))
           /\ \A c \in SecretContents :
                  strip(c) # strip(secrets.content)
                      => ~Contains(CycleUrl, PasswordOf(c))

\* the second cycle built its URL after the file was rewritten to 'pw2'
C13_Witness ==
    /\ variant = "lan" /\ CycleDone
    /\ cycle = 2
    /\ secrets.writes = 1
    /\ secrets.content = <<"pw2">>
    /\ StepCalls("adapter") # <<>>
    /\ StepCalls("adapter")[1].result.raised = "none"
    /\ Contains(CycleUrl, <<"password=", "pw2", "&">>)

\* the log entry has the secret of the secrets file in its text
HasSecret(entry) == Contains(entry.text, strip(secrets.content))

\* C14, as stated: no log entry written during a cycle, the error entry of a
\* failed update call included, contains the secret value.
C14_Original ==
    (variant = "lan" /\ CycleDone /\ secrets.readable)
        => \A i \in 1..Len(log) : ~HasSecret(log[i])

\* C14, amended: the only log entry of a cycle that contains the secret value
\* is the error entry of a failed update call, which names the attempted URL
\* in full, with the secret as its password parameter; no other entry (IP
\* changed, bypass, success, error of the adapter) contains it.
C14_SecretOnlyInUpdateError ==
    (variant = "lan" /\ CycleDone /\ secrets.readable)
        => /\ \A i \in 1..Len(log) :
                  HasSecret(log[i])
                      => /\ StepFailed("update")
                         /\ log[i].level = "error"
                         /\ i = Len(log)
                         /\ Contains(log[i].text, StepCalls("update")[1].argv[2])
           /\ StepFailed("update")
                  => /\ HasSecret(log[Len(log)])
                     /\ Contains(StepCalls("update")[1].argv[2],
                                 PasswordOf(secrets.content))

\* a cycle whose update call failed, and whose error entry has the secret 'pw'
C14_Witness ==
    /\ variant = "lan" /\ CycleDone /\ StepFailed("update")
    /\ secrets.content = <<"pw", "\n">>
    /\ Len(log) = 2
    /\ log[2].level = "error"
    /\ Contains(log[2].text, <<"password=", "pw", "&">>)

SectionHasSecretsFile ==
    has_option(arg.self.config, lower(arg.service_name), "secrets_file")

\* the secrets file can be opened at the path that the option expands to
SecretOpens ==
    /\ secrets.readable
    /\ secrets.path =
           expand_path(arg.self.config.options[lower(arg.service_name)]["secrets_file"])

----------------------------------------------------------------------------
(* Claims about the failures of a cycle *)

\* the adapter was called in the cycle, and raised
AdapterRaised ==
    /\ StepCalls("adapter") # <<>>
    /\ StepCalls("adapter")[1].result.raised # "none"

\* C17: every failure of a lookup or update step inside a cycle (the own-IP
\* curl call, the NS dig call, the A dig call or the update curl call ends
\* with a nonzero exit code, or the adapter raises) produces at least one
\* error log entry in that cycle.
C17_FailuresLogged ==
    (/\ variant = "lan" /\ CycleDone
     /\ \/ StepFailed("own_ip") \/ StepFailed("ns") \/ StepFailed("a")
        \/ StepFailed("update") \/ AdapterRaised)
        => Errors # <<>>

\* the NS query ended with exit code 0 and named no nameserver
NoNameserverFound ==
    /\ StepSucceeded("ns")
    /\ partition_head(StepCalls("ns")[1].result.stdout) = <<>>

\* the A query ended with exit code 0 and gave no address
NoARecordFound == StepSucceeded("a") /\ PublishedIp = <<>>

\* C18: when the published-IP lookup finds no record (the NS query names no
\* nameserver, or the A query gives no address, with dig exit code 0),
\* current_registered_ip() fails with a lookup error that tells 'no
\* nameserver found' from 'no A record found', and the cycle ends with no
\* adapter call and no update HTTP call: an empty answer is not taken for a
\* published IP.
C18_EmptyAnswerIsError ==
    (variant = "lan" /\ CycleDone /\ (NoNameserverFound \/ NoARecordFound))
        => /\ ret.raised # "none"
           /\ StepCalls("adapter") = <<>>
           /\ StepCalls("update") = <<>>

----------------------------------------------------------------------------
(* Claims about the programs *)

\* the program called the DDNSUpdater constructor
Constructed == StepCalls("DDNSUpdater") # <<>>

\* C19: main() exits with status 1 and does not construct a DDNSUpdater
\* whenever the configuration path does not exist, or the effective user is
\* not root and --debug is not given; with --debug a user who is not root
\* passes the preflight, and the DDNSUpdater is constructed when the
\* configuration path exists.
C19_Preflight ==
    (variant = "lan" /\ op = "main")
        => /\ (~arg.file.exists \/ (~arg.euid_root /\ ~arg.debug))
                  => /\ ret = SystemExit
                     /\ exit_status(ret) = 1
                     /\ ~Constructed
                     /\ cycle = 0
           /\ (arg.file.exists /\ (arg.euid_root \/ arg.debug)) => Constructed

\* a user who is not root ran the program with --debug, and it ran a cycle
C19_Witness ==
    /\ variant = "lan" /\ op = "main"
    /\ ~arg.euid_root /\ arg.debug /\ arg.file.exists
    /\ Constructed
    /\ cycle = 1

\* the program was given a domain to update: the domain argument of
\* src/ddns_updater.py, the domain option of the section of the service in
\* lanmanagement/ddns_updater.py
DomainGiven ==
    IF variant = "src" THEN TRUE
    ELSE /\ arg.file.exists /\ arg.file.parsable
         /\ \E i \in 1..Len(arg.file.sections) : arg.file.sections[i] = arg.service_nm
         /\ arg.service_nm = namecheap
         /\ "domain" \notin arg.file.missing

DomainToUpdate == IF variant = "src" THEN arg.domain ELSE arg.file.domain

\* C20: if the domain to be updated does not pass check_domain_syntax(), the
\* process exits with status 1 before any cycle runs, in both programs.
C20_InvalidDomainExits ==
    (op = "main" /\ DomainGiven /\ ~check_domain_syntax(DomainToUpdate))
        => /\ exit_status(ret) = 1
           /\ cycle = 0

\* the binary that the constructor finds missing first
MissingCommand == IF ~arg.dig THEN "dig" ELSE "curl"

\* the cycle steps: lookups, adapter call, update call
NoStepRan ==
    /\ StepCalls("own_ip") = <<>> /\ StepCalls("ns") = <<>>
    /\ StepCalls("a") = <<>> /\ StepCalls("adapter") = <<>>
    /\ StepCalls("update") = <<>>

\* C21: in both DDNSUpdater variants, when dig or curl is not found at
\* construction, the constructor logs the error "Could not find needed
\* command '<name>'" and exits with status 1 (sys.exit(1)) before any lookup,
\* adapter resolution or update call.
C21_MissingCommandExits ==
    (op = "main" /\ Constructed /\ (~arg.dig \/ ~arg.curl))
        => /\ log = <<Error(<<"Could not find needed command '", MissingCommand, "'">>)>>
           /\ ret = SystemExit
           /\ NoStepRan
           /\ cycle = 0
           /\ instances = {}

----------------------------------------------------------------------------
(* Claims about check_domain_syntax() *)

\* check_domain_syntax() was applied to a str
Checked == op = "check_domain_syntax" /\ arg.is_str

\* the dot-separated pieces of the argument: the labels, and the TLD last
Pieces == split_dots(arg.str)

\* a label ahead of the TLD begins or ends with a hyphen
HyphenAtLabelEdge ==
    \E k \in 1..(Len(Pieces) - 1) :
        /\ Pieces[k] # <<>>
        /\ Pieces[k][1] = "-" \/ Pieces[k][Len(Pieces[k])] = "-"

\* the argument has a character that is no letter, digit, hyphen or dot
OtherCharacter ==
    \E i \in 1..Len(arg.str) : arg.str[i] \notin LabelChars \cup {"."}

\* C22: check_domain_syntax() returns false for every string in which a
\* label, at any position (first, middle, last before the TLD), begins or
\* ends with a hyphen, and for every string that has a character other than
\* ASCII letters, digits, hyphen and dot, a trailing newline included.
C22_RejectsHyphensAndOtherCharacters ==
    (Checked /\ (HyphenAtLabelEdge \/ OtherCharacter)) => ret.value = FALSE

\* the last dot-separated piece of the argument: the TLD
Tld == Pieces[Len(Pieces)]

\* a label, the TLD included, is empty or longer than 63 characters
LabelLengthOutside ==
    \E k \in 1..Len(Pieces) :
        Len(Pieces[k]) < 1 \/ Len(Pieces[k]) > MAX_LABEL_LEN

\* the TLD has fewer than 2 characters, or a character that is no letter
BadTld ==
    \/ Len(Tld) < 2
    \/ \E i \in 1..Len(Tld) : Tld[i] \notin Letters

\* C23: check_domain_syntax() returns false for every input that is not a
\* string, is empty, is longer than 253 characters, has no dot, or has a label
\* (the final TLD label included) whose length is outside 1..63, and for every
\* TLD that is shorter than 2 characters or has a non-alphabetic character.
C23_RejectsByLengthAndTld ==
    (/\ op = "check_domain_syntax"
     /\ \/ ~arg.is_str
        \/ arg.str = <<>>
        \/ Len(arg.str) > MAX_DOMAIN_LEN
        \/ Len(Pieces) < 2
        \/ LabelLengthOutside
        \/ BadTld)
        => ret.value = FALSE

\* an ASCII letter, of either case
IsAlpha(c) == \E i \in 1..Len(LowerCase) : lower_char(c) = LowerCase[i]

\* a label of the grammar: 1..63 letters, digits and hyphens, no hyphen at
\* either end
GrammarLabel(l) ==
    /\ Len(l) >= 1
    /\ Len(l) <= MAX_LABEL_LEN
    /\ \A i \in 1..Len(l) : IsAlpha(l[i]) \/ l[i] \in Digits \/ l[i] = "-"
    /\ l[1] # "-"
    /\ l[Len(l)] # "-"

\* the argument satisfies the domain grammar
InGrammar ==
    /\ Len(arg.str) <= MAX_DOMAIN_LEN
    /\ Len(Pieces) >= 2
    /\ \A k \in 1..Len(Pieces) : GrammarLabel(Pieces[k])
    /\ Len(Tld) >= 2
    /\ \A i \in 1..Len(Tld) : IsAlpha(Tld[i])

\* C24: check_domain_syntax() returns true for every string that satisfies
\* the domain grammar (at most 253 characters, two or more dot-separated
\* labels of 1..63 letters, digits and hyphens with no hyphen at either end,
\* a final label of at least 2 letters), and it treats upper-case and
\* lower-case letters alike: a string and its lower-case form get the same
\* answer.
C24_AcceptsGrammar ==
    Checked =>
        /\ InGrammar => ret.value = TRUE
        /\ ret.value = check_domain_syntax(lower(arg.str))

\* a name of the grammar with an upper-case letter in it was accepted
C24_Witness ==
    /\ Checked
    /\ InGrammar
    /\ \E i \in 1..Len(arg.str) : arg.str[i] # lower_char(arg.str[i])
    /\ ret.value = TRUE

----------------------------------------------------------------------------
(* Claims about the cycles of a run *)

\* the constructor of src/ddns_updater.py has ended, by a return or by an
\* exception, after it found dig and curl
ConstructorSrcEnded ==
    /\ op = "main"
    /\ variant = "src"
    /\ Constructed
    /\ arg.dig
    /\ arg.curl

\* C25: in src/ddns_updater.py the constructor with period > 0 runs
\* report_own_ip() cycles one after the other without end, whatever a cycle's
\* outcome, so it never ends; with period = 0 it runs exactly one cycle and
\* returns.
C25_PeriodicCycles ==
    ConstructorSrcEnded
        => /\ arg.period = 0
           /\ cycle = 1
           /\ ret.raised = "none"

\* the position in calls of the first call of the step, 0 if it made none
StepAt(step) ==
    IF StepCalls(step) = <<>> THEN 0
    ELSE CHOOSE i \in 1..Len(calls) :
             /\ calls[i].step = step
             /\ \A j \in 1..(i - 1) : calls[j].step # step

\* the first line of an output: its longest prefix without a newline
FirstLine(s) ==
    LET n == CHOOSE k \in 0..Len(s) :
                 /\ \A j \in 1..k : s[j] # "\n"
                 /\ k < Len(s) => s[k + 1] = "\n"
    IN  SubSeq(s, 1, n)

\* the steps of the cycle after the step, in the order of the cycle
StepsAfter(step) ==
    CASE step = "own_ip" -> {"ns", "a", "adapter", "update"}
      [] step = "ns"     -> {"a", "adapter", "update"}
      [] step = "a"      -> {"adapter", "update"}

\* C26: the steps of one report_own_ip() cycle occur in a fixed order and the
\* first failure stops the rest: the own-IP curl call comes before every DNS
\* query, and if it fails there is no NS query, A query, adapter call or
\* update call; the NS query comes before the A query, the A query is sent to
\* the first nameserver line that the NS query printed, and if the NS query
\* fails no A query is made.
C26_StepOrder ==
    CycleDone =>
        /\ calls # <<>> /\ calls[1].step = "own_ip"
        /\ \A st \in {"own_ip", "ns", "a"} :
               StepFailed(st) =>
                   \A later \in StepsAfter(st) : StepCalls(later) = <<>>
        /\ StepCalls("ns") # <<>> => StepAt("own_ip") < StepAt("ns")
        /\ StepCalls("a") # <<>>
               => /\ StepSucceeded("ns")
                  /\ StepAt("ns") < StepAt("a")
                  /\ StepCalls("a")[1].argv[4]
                         = <<"@">> \o FirstLine(StepCalls("ns")[1].result.stdout)
        /\ \A st \in {"adapter", "update"} :
               StepCalls(st) # <<>>
                   => StepSucceeded("a") /\ StepAt("a") < StepAt(st)

\* a cycle whose A query went to dns1., the first of the two nameservers that
\* the NS query printed
C26_Witness ==
    /\ CycleDone
    /\ StepSucceeded("own_ip") /\ StepSucceeded("ns")
    /\ StepCalls("ns")[1].result.stdout = <<"dns1.", "\n", "dns2.", "\n">>
    /\ StepCalls("a") # <<>>
    /\ StepCalls("a")[1].argv[4] = <<"@", "dns1.">>

\* the steps of a cycle that call a process or the adapter
CycleSteps == {"own_ip", "ns", "a", "adapter", "update"}

\* C27: no step is retried: in one report_own_ip() cycle the own-IP curl call,
\* the NS dig call, the A dig call, ddns_update_url() and the update curl call
\* are each made at most once.
C27_NoRetry ==
    CycleDone => \A st \in CycleSteps : Len(StepCalls(st)) <= 1

\* a cycle whose own-IP curl call failed, and was made once
C27_Witness ==
    /\ CycleDone
    /\ StepFailed("own_ip")
    /\ Len(calls) = 1

\* the cycle went past the comparison of the two IPs, to the update
UpdateAttempted ==
    /\ log # <<>>
    /\ log[1].level = "info"
    /\ log[1].text[1] = "IP changed from "

\* C28: the decision to update is string inequality of the two trimmed
\* outputs: after two successful lookups an update is attempted if and only
\* if the right-stripped response of the own-IP service differs from the
\* right-stripped whole output of the A query; nothing is normalised, so an A
\* answer that lists the own IP among other addresses counts as different.
C28_UpdateIffDifferent ==
    (CycleDone /\ LookupsSucceeded)
        => /\ UpdateAttempted <=> OwnIp # PublishedIp
           /\ variant = "lan" => (StepCalls("adapter") # <<>> <=> OwnIp # PublishedIp)
           /\ StepCalls("update") # <<>> => OwnIp # PublishedIp

\* a cycle with own IP "2" and the A answer "1", "2": the update call was made
C28_Witness ==
    /\ CycleDone /\ LookupsSucceeded
    /\ StepCalls("own_ip")[1].result.stdout = <<"2", "\n">>
    /\ StepCalls("a")[1].result.stdout = <<"1", "\n", "2", "\n">>
    /\ UpdateAttempted
    /\ StepCalls("update") # <<>>

\* the IPs of the cycle differ, and ddns_update_url() raises for the own IP
UrlRaises ==
    /\ LookupsSucceeded
    /\ OwnIp # PublishedIp
    /\ AdapterUrl.raised # "none"

\* C29: when the IPs differ and the adapter's ddns_update_url() raises (an
\* option is missing, or the secrets file cannot be read), report_own_ip()
\* catches the exception, logs one error 'Error while reporting IP: ' with the
\* exception's text, makes no update HTTP call, logs no success message, and
\* returns normally.
C29_AdapterFailureCaught ==
    (variant = "lan" /\ CycleDone /\ UrlRaises)
        => /\ AdapterRaised
           /\ Len(Errors) = 1
           /\ Errors[1].text[1] = "Error while reporting IP: "
           /\ Tail(Errors[1].text) = str_exc(StepCalls("adapter")[1].result)
           /\ StepCalls("update") = <<>>
           /\ ~SuccessLogged
           /\ ret.raised = "none"

\* a cycle in which the adapter could not read the secrets file
C29_Witness ==
    /\ variant = "lan" /\ CycleDone /\ UrlRaises
    /\ ~secrets.readable
    /\ "secrets_file" \in DOMAIN config.options[namecheap]
    /\ "url_root" \in DOMAIN config.options[namecheap]
    /\ Len(Errors) = 1

----------------------------------------------------------------------------
(* Claims about --list *)

\* main() was run with --list and printed the names of the services
NamesListed ==
    /\ op = "main"
    /\ variant = "lan"
    /\ arg.list
    /\ Constructed
    /\ StepCalls("print") # <<>>

\* every call that the step made comes before everything that was printed
BeforeListing(step) ==
    \A i, j \in 1..Len(calls) :
        (calls[i].step = step /\ calls[j].step = "print") => i < j

\* the names were listed after one whole cycle, its lookups made
ListedAfterCycle ==
    /\ cycle = 1
    /\ LookupsSucceeded
    /\ \A st \in {"DDNSUpdater"} \cup CycleSteps : BeforeListing(st)

\* C30, as stated: with --list, main() prints the provider names only after
\* the constructor has completed one report_own_ip() cycle: the own-IP and
\* DNS lookups have been made and, when the IPs differ and --debug is off,
\* the update HTTP call has been made, before anything is listed.
C30_Original ==
    NamesListed
        => /\ ListedAfterCycle
           /\ (OwnIp # PublishedIp /\ ~arg.debug) => StepCalls("update") # <<>>

\* C30, amended: as above, with the update HTTP call made when the IPs
\* differ, --debug is off and ddns_update_url() returned a URL; when it
\* raised, the error is logged, no update call is made, and the names are
\* listed all the same.
C30_ListAfterCycle ==
    NamesListed
        => /\ ListedAfterCycle
           /\ OwnIp # PublishedIp => StepCalls("adapter") # <<>>
           /\ (OwnIp # PublishedIp /\ ~arg.debug /\ ~AdapterRaised)
                  => StepCalls("update") # <<>>
           /\ (OwnIp # PublishedIp /\ AdapterRaised)
                  => StepCalls("update") = <<>> /\ Errors # <<>>

\* the names were listed after a cycle that made the update call
C30_Witness ==
    /\ NamesListed
    /\ ~arg.debug
    /\ OwnIp # PublishedIp
    /\ StepCalls("update") # <<>>
    /\ calls[Len(calls)].step = "print"

====
